---- MODULE Spec2Model ----
(***************************************************************************)
(* Model of src/src/neural_pseudo_scan/sample_nerfie.py: the render loop   *)
(* of sample_points (point extraction, accumulation, persistence) and the  *)
(* steps of visualize_point_cloud.                                         *)
(*                                                                         *)
(* Numbers.  Sample weights are floats in the source; here a weight is an  *)
(* integer number of units of 1/Den, so the threshold 0.5 is reached when  *)
(* 2 * cumulative >= Den.  Points and colours are integer triples.         *)
(***************************************************************************)
EXTENDS Integers, Sequences, FiniteSets, TLC

\* ------------------------------------------------------------------ bounds
MaxCameras == 3     \* len(test_cameras) ranges over 0..MaxCameras
MaxStep == 2        \* --frame-step ranges over 1..MaxStep
HW == 2             \* rays per frame, H*W (the flattened pixel grid)
NumSamples == 2     \* S, samples per ray
MaxWeight == 2      \* a sample weight ranges over 0..MaxWeight units
Den == 4            \* one weight unit is 1/Den
NumColours == 2     \* colour levels the scene model may predict

Rays == 1..HW
Samples == 1..NumSamples
WeightSeqs == [Samples -> 0..MaxWeight]
Colours == 0..(NumColours - 1)
Zero3 == <<0, 0, 0>>

\* depth_threshold=0.5, as the fraction num/den
depth_threshold == [num |-> 1, den |-> 2]

VARIABLES
    mode,             \* which operation of the program this behaviour runs
    test_cameras,     \* len(test_cameras)
    frame_step,       \* --frame-step
    pc,               \* "loop" | "done" | "aborted"
    i,                \* the index the for loop takes next
    point_cloud_xyz,  \* list of per-frame point chunks
    point_cloud_rgb,  \* list of per-frame colour chunks
    results,          \* list of per-frame pred_color (pred_depth is not modelled)
    images,           \* frame indices whose NNNN.jpg is in output_dir
    file,             \* the point-cloud file: [exists, bytes]
    processed,        \* history: camera indices rendered and appended, in order
    appends,          \* history: number of point_cloud_xyz.append calls
    saves,            \* history: number of np.save calls
    renders,          \* history: camera index of every render_fn call, in order
    rays,             \* history: per appended ray, [cam, ray, reached, colour]
    px,               \* point extraction of one ray under two thresholds
    rd,               \* the render executor's state during render_fn
    io                \* visualize_point_cloud: what was saved, read and converted

loopvars == <<test_cameras, frame_step, pc, i, point_cloud_xyz,
              point_cloud_rgb, results, images, processed, appends, saves,
              renders, rays>>

vars == <<mode, loopvars, file, px, rd, io>>

\* ------------------------------------------------------- vector helpers
Add3(a, b) == <<a[1] + b[1], a[2] + b[2], a[3] + b[3]>>
Scale3(k, a) == <<k * a[1], k * a[2], k * a[3]>>

RECURSIVE PrefixSum(_, _)
\* jnp.cumsum(weights, axis=-1)[s]
PrefixSum(w, s) == IF s = 0 THEN 0 ELSE PrefixSum(w, s - 1) + w[s]

\* ------------------------------------------------- point extraction
\* opaqueness[s]: the cumulative weight has reached the threshold t = num/den
Opaque(w, t, s) ==
    IF s = 0 THEN FALSE ELSE PrefixSum(w, s) * t.den >= t.num * Den

\* a plausible slip: the mask is the opaqueness itself, every sample at or
\* past the threshold
opaqueness_unshifted(w, t) ==
    [s \in DOMAIN w |-> IF Opaque(w, t, s) THEN 1 ELSE 0]

\* model_utils.compute_opaqueness_mask: 1 where opaqueness switches on
\* (opaqueness XOR opaqueness shifted right by one sample, padded with False)
compute_opaqueness_mask(w, t) ==
    [s \in DOMAIN w |-> IF Opaque(w, t, s) # Opaque(w, t, s - 1) THEN 1 ELSE 0]

RECURSIVE SumSamples(_, _, _)
\* jnp.sum(opaqueness_mask[..., None] * sampled_points, axis=-2) for one ray
SumSamples(mask, pts, s) ==
    IF s = 0 THEN Zero3
    ELSE Add3(SumSamples(mask, pts, s - 1), Scale3(mask[s], pts[s]))

\* a plausible slip: a ray no sample of which is selected falls back to its
\* last sample instead of degenerating to the zero-weighted sum
points_mid_fallback(w, pts, t) ==
    LET mask == compute_opaqueness_mask(w, t)
    IN IF \A s \in DOMAIN w : mask[s] = 0
       THEN pts[Len(w)]
       ELSE SumSamples(mask, pts, Len(w))

\* points_mid for one ray
points_mid(w, pts, t) ==
    SumSamples(compute_opaqueness_mask(w, t), pts, Len(w))

\* a plausible slip: background (zero) points are filtered out of the chunk
frame_points_filtered(weights, sampled_points, t) ==
    SelectSeq([r \in DOMAIN weights |->
                  points_mid(weights[r], sampled_points[r], t)],
              LAMBDA p : p # Zero3)

\* np.array(points_mid.reshape(-1, 3)): one point per ray, in pixel order
frame_points(weights, sampled_points, t) ==
    [r \in DOMAIN weights |-> points_mid(weights[r], sampled_points[r], t)]

\* a plausible slip: the loop advances by one whatever the frame step
range_next_by_one(k, step) == k + 1

\* range(0, len(test_cameras), frame_step): the index after k
range_next(k, step) == k + step

\* ------------------------------------------------- the rendered frame
\* The scene model is external.  A frame's RenderOutput is drawn from a
\* bounded family: a weight profile w and a colour level c for the frame;
\* ray r sees the profile shifted r-1 samples along the ray, at sample
\* positions fixed by the camera and the pixel.
RayWeights(w, r) ==
    [s \in Samples |-> IF s > r - 1 THEN w[s - (r - 1)] ELSE 0]
Position(cam, r, s) == <<cam + 1, r, s>>
RayColour(c, r) == <<c, r, 0>>

\* the ray's cumulative weight reaches the threshold at some sample
Reaches(w, t) == \E s \in DOMAIN w : PrefixSum(w, s) * t.den >= t.num * Den

\* ------------------------------------------------- persistence
RECURSIVE np_concatenate_reversed(_)
\* a plausible slip: the chunks are joined last first
np_concatenate_reversed(chunks) ==
    IF chunks = <<>> THEN <<>>
    ELSE np_concatenate_reversed(Tail(chunks)) \o Head(chunks)

RECURSIVE np_concatenate(_)
\* np.concatenate(chunks, axis=0)
np_concatenate(chunks) ==
    IF chunks = <<>> THEN <<>>
    ELSE Head(chunks) \o np_concatenate(Tail(chunks))

\* np.save(f, {"verts": ..., "rgb": ...}): the tagged container, each array
\* written as its key, its length and its rows
np_save(d) ==
    <<"verts", Len(d.verts)>> \o d.verts \o <<"rgb", Len(d.rgb)>> \o d.rgb

\* np.load(path, allow_pickle=True).item()
np_load(bytes) ==
    LET nv == bytes[2]
        nr == bytes[nv + 4]
    IN [verts |-> SubSeq(bytes, 3, nv + 2),
        rgb |-> SubSeq(bytes, nv + 5, nv + 4 + nr)]

NoFile == [exists |-> FALSE, bytes |-> <<>>]

\* with open(..., "wb") as f: np.save(f, {"verts": np.concatenate(xyz),
\* "rgb": np.concatenate(rgb)}).  The file is opened (created empty) first;
\* np.concatenate of an empty list raises ValueError before np.save is called.
save_point_cloud(xyz, rgb) ==
    IF xyz = <<>>
    THEN [file |-> [exists |-> TRUE, bytes |-> <<>>], raised |-> TRUE]
    ELSE [file |-> [exists |-> TRUE,
                    bytes |-> np_save([verts |-> np_concatenate(xyz),
                                       rgb |-> np_concatenate(rgb)])],
          raised |-> FALSE]
\* the value of a part of the state the running operation does not use
Idle == [stage |-> "idle"]

\* ------------------------------------------------- sample_points
Init ==
    /\ mode = "sample_points"
    /\ test_cameras \in 0..MaxCameras
    /\ frame_step \in 1..MaxStep
    /\ pc = "loop"
    /\ i = 0
    /\ point_cloud_xyz = <<>>
    /\ point_cloud_rgb = <<>>
    /\ results = <<>>
    /\ images = {}
    /\ file = NoFile
    /\ processed = <<>>
    /\ appends = 0
    /\ saves = 0
    /\ renders = <<>>
    /\ rays = <<>>
    /\ px = Idle /\ rd = Idle /\ io = Idle

\* One iteration of the for loop whose render_fn call returns.
Frame ==
    /\ mode = "sample_points" /\ pc = "loop" /\ i < test_cameras
    /\ \E w \in WeightSeqs, c \in Colours :
        LET weights == [r \in Rays |-> RayWeights(w, r)]
            sampled_points ==
                [r \in Rays |-> [s \in Samples |-> Position(i, r, s)]]
            pred_color == [r \in Rays |-> RayColour(c, r)]
            mid == frame_points(weights, sampled_points, depth_threshold)
        IN /\ point_cloud_xyz' = Append(point_cloud_xyz, mid)
           /\ point_cloud_rgb' = Append(point_cloud_rgb, pred_color)
           /\ results' = Append(results, pred_color)
           /\ rays' = rays \o
                  [r \in Rays |-> [cam |-> i, ray |-> r,
                                   reached |-> Reaches(weights[r], depth_threshold),
                                   colour |-> pred_color[r]]]
    /\ renders' = Append(renders, i)
    /\ processed' = Append(processed, i)
    /\ appends' = appends + 1
    /\ images' = images \cup {i}
    /\ i' = range_next(i, frame_step)
    /\ UNCHANGED <<mode, test_cameras, frame_step, pc, file, saves, px, rd,
                   io>>

\* a plausible slip: the failure is swallowed and the loop goes on
FrameFailSkip ==
    /\ mode = "sample_points" /\ pc = "loop" /\ i < test_cameras
    /\ renders' = Append(renders, i)
    /\ i' = range_next(i, frame_step)
    /\ UNCHANGED <<mode, test_cameras, frame_step, pc, point_cloud_xyz,
                   point_cloud_rgb, results, images, file, processed, appends,
                   saves,
                   rays, px, rd, io>>

\* One iteration whose render_fn call raises: nothing catches it.
FrameFail ==
    /\ mode = "sample_points" /\ pc = "loop" /\ i < test_cameras
    /\ renders' = Append(renders, i)
    /\ pc' = "aborted"
    /\ UNCHANGED <<mode, test_cameras, frame_step, i, point_cloud_xyz,
                   point_cloud_rgb, results, images, file, processed, appends,
                   saves,
                   rays, px, rd, io>>

\* After the loop: open(..., "wb") and np.save of the concatenated lists.
\* np.concatenate of an empty list raises ValueError after the file was
\* opened for writing.
Save ==
    /\ mode = "sample_points" /\ pc = "loop" /\ i >= test_cameras
    /\ LET saved == save_point_cloud(point_cloud_xyz, point_cloud_rgb)
       IN /\ file' = saved.file
          /\ pc' = IF saved.raised THEN "aborted" ELSE "done"
          /\ saves' = IF saved.raised THEN saves ELSE saves + 1
    /\ UNCHANGED <<mode, test_cameras, frame_step, i, point_cloud_xyz,
                   point_cloud_rgb, results, images, processed, appends, renders,
                   rays,
                   px, rd, io>>

Next == Frame \/ FrameFail \/ Save

Spec == Init /\ [][Next]_vars

\* ------------------------------------------------- idle sample_points
\* the loop's variables in a behaviour that runs another operation
LoopIdle ==
    /\ test_cameras = 0 /\ frame_step = 1 /\ pc = "idle" /\ i = 0
    /\ point_cloud_xyz = <<>> /\ point_cloud_rgb = <<>> /\ results = <<>>
    /\ images = {}
    /\ processed = <<>> /\ appends = 0 /\ saves = 0 /\ renders = <<>>
    /\ rays = <<>>

\* ------------------------------------------------- point extraction alone
\* One ray: its weights, its sample positions, and two thresholds
\* lo/Den <= hi/Den in [0, 1].
MaxCoord == 1       \* a sample coordinate ranges over -MaxCoord..MaxCoord
SamplePositions == {<<x, x + 1, 1>> : x \in (0 - MaxCoord)..MaxCoord}

InitExtract ==
    /\ mode = "extract"
    /\ LoopIdle /\ file = NoFile /\ rd = Idle /\ io = Idle
    /\ \E w \in WeightSeqs, pts \in [Samples -> SamplePositions] :
       \E lo \in 0..Den, hi \in 0..Den :
          /\ lo <= hi
          /\ px = [stage |-> "input", w |-> w, pts |-> pts, lo |-> lo, hi |-> hi,
                   mask_lo |-> <<>>, mask_hi |-> <<>>, point |-> Zero3]

\* compute_opaqueness_mask under both thresholds; points_mid under 0.5
Extract ==
    /\ mode = "extract" /\ px.stage = "input"
    /\ px' = [px EXCEPT
                !.stage = "masked",
                !.mask_lo = compute_opaqueness_mask(px.w, [num |-> px.lo, den |-> Den]),
                !.mask_hi = compute_opaqueness_mask(px.w, [num |-> px.hi, den |-> Den]),
                !.point = points_mid(px.w, px.pts, depth_threshold)]
    /\ UNCHANGED <<mode, loopvars, file, rd, io>>

NextExtract == Extract

SpecExtract == InitExtract /\ [][NextExtract]_vars

\* ------------------------------------------------- persistence alone
MaxSaved == 2       \* sample_points accumulated 0..MaxSaved frame chunks
VertValues == {Zero3, <<1, 0 - 2, 3>>}
RgbValues == {Zero3, <<255, 128, 1>>}
\* the chunk lists sample_points can hold when its loop ends: one chunk of
\* H*W rows per processed frame, none when the camera path is empty
ChunkLists(values) == UNION {[1..n -> [Rays -> values]] : n \in 0..MaxSaved}

InitIO ==
    /\ mode = "persist"
    /\ LoopIdle /\ file = NoFile /\ px = Idle /\ rd = Idle
    /\ \E xyz \in ChunkLists(VertValues), rgb \in ChunkLists(RgbValues) :
          /\ Len(xyz) = Len(rgb)
          /\ io = [stage |-> "new", xyz |-> xyz, rgb |-> rgb,
                   device |-> "none", points |-> <<>>, colors |-> <<>>,
                   pcd_file |-> NoFile]

\* the write of sample_points after its loop
WriteContainer ==
    /\ mode = "persist" /\ io.stage = "new"
    /\ LET saved == save_point_cloud(io.xyz, io.rgb)
       IN /\ file' = saved.file
          /\ io' = [io EXCEPT
                      !.stage = IF saved.raised THEN "save_failed" ELSE "written"]
    /\ UNCHANGED <<mode, loopvars, px, rd>>

\* np.load on the zero-byte file a failed save leaves: nothing to read,
\* np.load raises
np_load_raises(bytes) == bytes = <<>>

\* visualize_point_cloud up to the viewer: the torch device is selected,
\* np.load(...).item() is read, and the open3d point cloud gets its points and
\* colours (Vector3dVector holds the rows as float64, which keeps every
\* float32 value).  o3d.visualization.draw_geometries is then entered and
\* blocks until the viewer is closed.
load_point_cloud ==
    /\ mode = "persist" /\ io.stage \in {"written", "save_failed"}
    /\ file.exists
    /\ \E cuda_available \in BOOLEAN :
       LET device == IF cuda_available THEN "cuda:0" ELSE "cpu"
       IN IF np_load_raises(file.bytes)
          THEN io' = [io EXCEPT !.stage = "load_failed", !.device = device]
          ELSE LET point_cloud_np == np_load(file.bytes)
               IN io' = [io EXCEPT
                           !.stage = "shown",
                           !.device = device,
                           !.points = point_cloud_np.verts,
                           !.colors = point_cloud_np.rgb]
    /\ UNCHANGED <<mode, loopvars, file, px, rd>>

\* draw_geometries raises, or the process is ended while the viewer is open:
\* the points were read and no sibling file is written
draw_geometries_fails ==
    /\ mode = "persist" /\ io.stage = "shown"
    /\ io' = [io EXCEPT !.stage = "aborted"]
    /\ UNCHANGED <<mode, loopvars, file, px, rd>>

\* a colour channel as the .pcd writer stores it: clamped to [0, 1] and
\* quantised to 8 bits
pcd_channel(c) == 255 * (IF c < 0 THEN 0 ELSE IF c > 1 THEN 1 ELSE c)
pcd_colour(c) == <<pcd_channel(c[1]), pcd_channel(c[2]), pcd_channel(c[3])>>

\* the viewer was closed: o3d.io.write_point_cloud writes the sibling
\* _o3d.pcd file; for a point cloud without points it writes nothing and
\* returns False
write_point_cloud ==
    /\ mode = "persist" /\ io.stage = "shown"
    /\ io' = [io EXCEPT
                !.stage = "converted",
                !.pcd_file = IF io.points = <<>>
                             THEN io.pcd_file
                             ELSE [exists |-> TRUE,
                                   bytes |-> <<io.points,
                                               [j \in DOMAIN io.colors |->
                                                   pcd_colour(io.colors[j])]>>]]
    /\ UNCHANGED <<mode, loopvars, file, px, rd>>

NextIO ==
    \/ WriteContainer
    \/ load_point_cloud
    \/ draw_geometries_fails
    \/ write_point_cloud

SpecIO == InitIO /\ [][NextIO]_vars

\* ------------------------------------------------- the render executor
\* render_fn = evaluation.render_image with model_fn = pmodel_fn: one call
\* renders one frame's ray batch over device_count devices, chunk by chunk.
MaxBatch == 4       \* a ray batch holds 1..MaxBatch rays
MaxDevices == 2     \* len(jax.devices()) ranges over 1..MaxDevices
MaxChunk == 3       \* eval_config.chunk // 2 ranges over 1..MaxChunk
MaxSeed == 1        \* exp_config.random_seed ranges over 0..MaxSeed
MaxHost == 1        \* jax.host_id() ranges over 0..MaxHost
MaxFrames == 2      \* frames rendered one after the other

\* model.apply for one ray; in eval mode it does not read the rng keys
SceneModel(ray) == <<ray, ray * ray>>

\* A random key is the path of its derivation: the seed, then the index of
\* each split taken and, negated, each integer added to the raw key.
PRNGKey(seed) == <<seed>>

\* jax.random.split(key, n)
split(key, n) == [k \in 1..n |-> Append(key, k)]

\* rng + jax.host_id()
key_add(key, h) == IF h = 0 THEN key ELSE Append(key, 0 - h)

\* the rng sample_points passes to every render_fn call
caller_rng(seed, host) == key_add(split(PRNGKey(seed), 2)[1], host)

Min(a, b) == IF a <= b THEN a ELSE b

\* the chunk's rays, padded by repeating the last ray until the devices get
\* equal shares
PadEdge(chunk_rays, padding) ==
    chunk_rays \o [j \in 1..padding |-> chunk_rays[Len(chunk_rays)]]

\* utils.shard: device k gets the k-th contiguous share
shard(padded, d) ==
    LET per == Len(padded) \div d
    IN [k \in 1..d |-> SubSeq(padded, (k - 1) * per + 1, k * per)]

\* a plausible slip: the partial outputs are stacked in the order the devices
\* finished
all_gather_by_completion(partial, order) ==
    [j \in 1..Len(order) |-> partial[order[j]]]

\* jax.lax.all_gather(out, axis_name="batch"): every device gets the partial
\* outputs of all devices stacked by device index
all_gather(partial, order) == [k \in DOMAIN partial |-> partial[k]]

\* utils.unshard: the stacked device outputs as one array, the padding dropped
unshard(gathered, padding) ==
    LET flat == np_concatenate(gathered)
    IN SubSeq(flat, 1, Len(flat) - padding)

InitRender ==
    /\ mode = "render"
    /\ LoopIdle /\ file = NoFile /\ px = Idle /\ io = Idle
    /\ \E nr \in 1..MaxBatch, d \in 1..MaxDevices, chunk \in 1..MaxChunk :
       \E seed \in 0..MaxSeed, host \in 0..MaxHost :
          /\ nr % d = 0
          /\ rd = [stage |-> "call", frame |-> 1,
                   batch |-> [j \in 1..nr |-> j],
                   device_count |-> d, chunk |-> chunk,
                   rng |-> caller_rng(seed, host),
                   key_0 |-> <<>>, key_1 |-> <<>>, splits |-> 0,
                   ray_idx |-> 0, shards |-> <<>>, padding |-> 0,
                   pending |-> {}, partial |-> <<>>, order |-> <<>>,
                   ret_maps |-> <<>>, out |-> <<>>,
                   sent |-> 0, completed |-> 0]

\* render_image entry: the per-device keys are split from rng, once
SplitKeys ==
    /\ mode = "render" /\ rd.stage = "call"
    /\ LET ks == split(rd.rng, 3)
       IN rd' = [rd EXCEPT !.stage = "dispatch",
                           !.key_0 = split(ks[2], rd.device_count),
                           !.key_1 = split(ks[3], rd.device_count),
                           !.splits = rd.splits + 1]
    /\ UNCHANGED <<mode, loopvars, file, px, io>>

\* the next chunk is padded, sharded and handed to the devices
Dispatch ==
    /\ mode = "render" /\ rd.stage = "dispatch" /\ rd.ray_idx < Len(rd.batch)
    /\ LET chunk_rays == SubSeq(rd.batch, rd.ray_idx + 1,
                                Min(rd.ray_idx + rd.chunk, Len(rd.batch)))
           remainder == Len(chunk_rays) % rd.device_count
           padding == IF remainder # 0 THEN rd.device_count - remainder ELSE 0
       IN rd' = [rd EXCEPT
                   !.stage = "running",
                   !.padding = padding,
                   !.shards = shard(PadEdge(chunk_rays, padding), rd.device_count),
                   !.pending = 1..rd.device_count,
                   !.partial = [k \in 1..rd.device_count |-> <<>>],
                   !.order = <<>>,
                   !.sent = rd.sent + rd.device_count]
    /\ UNCHANGED <<mode, loopvars, file, px, io>>

\* _model_fn on device k: model.apply on the device's shard
DeviceDone(k) ==
    /\ mode = "render" /\ rd.stage = "running" /\ k \in rd.pending
    /\ rd' = [rd EXCEPT
                !.partial[k] = [j \in DOMAIN rd.shards[k] |->
                                   SceneModel(rd.shards[k][j])],
                !.pending = rd.pending \ {k},
                !.order = Append(rd.order, k),
                !.completed = rd.completed + 1]
    /\ UNCHANGED <<mode, loopvars, file, px, io>>

\* every device has finished: all_gather, unreplicate, unshard, and the
\* chunk's output joins ret_maps
Gather ==
    /\ mode = "render" /\ rd.stage = "running" /\ rd.pending = {}
    /\ rd' = [rd EXCEPT
                !.stage = "dispatch",
                !.ret_maps = Append(rd.ret_maps,
                                    unshard(all_gather(rd.partial, rd.order),
                                            rd.padding)),
                !.ray_idx = rd.ray_idx + rd.chunk]
    /\ UNCHANGED <<mode, loopvars, file, px, io>>

\* all chunks rendered: their outputs are concatenated and returned
Return ==
    /\ mode = "render" /\ rd.stage = "dispatch" /\ rd.ray_idx >= Len(rd.batch)
    /\ rd' = [rd EXCEPT !.stage = "returned",
                        !.out = np_concatenate(rd.ret_maps)]
    /\ UNCHANGED <<mode, loopvars, file, px, io>>

\* the loop's next render_fn(state, batch, rng=rng): the same rng again
NextFrame ==
    /\ mode = "render" /\ rd.stage = "returned" /\ rd.frame < MaxFrames
    /\ rd' = [rd EXCEPT !.stage = "call", !.frame = rd.frame + 1,
                        !.key_0 = <<>>, !.key_1 = <<>>, !.splits = 0,
                        !.ray_idx = 0, !.shards = <<>>, !.padding = 0,
                        !.partial = <<>>, !.order = <<>>,
                        !.ret_maps = <<>>, !.out = <<>>,
                        !.sent = 0, !.completed = 0]
    /\ UNCHANGED <<mode, loopvars, file, px, io>>

NextRender ==
    \/ SplitKeys
    \/ Dispatch
    \/ \E k \in 1..MaxDevices : DeviceDone(k)
    \/ Gather
    \/ Return
    \/ NextFrame

SpecRender == InitRender /\ [][NextRender]_vars

\* ================================================== claims on sample_points
\* the camera indices range(0, n, s) visits
StepIndices(n, s) == {j \in 0..(n - 1) : j % s = 0}
LoopFinished == i >= test_cameras
\* a render_fn call has raised
RenderFailed == Len(renders) > Len(processed)
\* index of ray r of the k-th appended chunk in the flat point cloud
FlatIndex(k, r) == (k - 1) * HW + r

\* C1: sample_points processes exactly the cameras 0, s, 2s, ... below n, each
\* once, in strictly increasing order, with exactly one append per processed
\* camera; the point cloud written holds H*W points per processed camera.
C1_SteppedCameras ==
    /\ appends = Len(processed)
    /\ Len(point_cloud_xyz) = appends
    /\ Len(point_cloud_rgb) = appends
    /\ \A k \in 1..Len(processed) :
          /\ processed[k] = (k - 1) * frame_step
          /\ processed[k] < test_cameras
    /\ LoopFinished =>
          {processed[k] : k \in 1..Len(processed)}
              = StepIndices(test_cameras, frame_step)
    /\ pc = "done" =>
          /\ Len(np_load(file.bytes).verts)
                 = Cardinality(StepIndices(test_cameras, frame_step)) * HW
          /\ Len(np_load(file.bytes).rgb)
                 = Cardinality(StepIndices(test_cameras, frame_step)) * HW

\* three cameras, step 2: cameras 0 and 2 were processed and the file written
C1_Witness ==
    /\ pc = "done" /\ test_cameras = 3 /\ frame_step = 2
    /\ processed = <<0, 2>> /\ appends = 2

\* C2: the point cloud written is the concatenation of the per-frame chunks
\* in append order (camera iteration order): row FlatIndex(k, r) of verts and
\* of rgb is ray r of the k-th chunk, which is ray r of camera processed[k];
\* no chunk is reordered, dropped, duplicated or filtered.
C2_WrittenIsConcatenation ==
    pc = "done" =>
        LET pcd == np_load(file.bytes)
        IN /\ Len(pcd.verts) = HW * Len(point_cloud_xyz)
           /\ Len(pcd.rgb) = HW * Len(point_cloud_rgb)
           /\ \A k \in 1..Len(point_cloud_xyz) : \A r \in Rays :
                 /\ pcd.verts[FlatIndex(k, r)] = point_cloud_xyz[k][r]
                 /\ pcd.rgb[FlatIndex(k, r)] = point_cloud_rgb[k][r]
                 /\ rays[FlatIndex(k, r)].cam = processed[k]
                 /\ rays[FlatIndex(k, r)].ray = r
                 /\ pcd.rgb[FlatIndex(k, r)] = rays[FlatIndex(k, r)].colour
                 /\ rays[FlatIndex(k, r)].reached =>
                       pcd.verts[FlatIndex(k, r)][1] = processed[k] + 1

\* two chunks with different contents were appended and written
C2_Witness ==
    /\ pc = "done" /\ Len(point_cloud_xyz) >= 2
    /\ point_cloud_xyz[1] # point_cloud_xyz[2]
    /\ point_cloud_rgb[1] # point_cloud_rgb[2]
    /\ \E j \in 1..Len(rays) : rays[j].reached

TotalLen(chunks) == Len(np_concatenate(chunks))

C3_Aligned ==
    /\ Len(point_cloud_xyz) = Len(point_cloud_rgb)
    /\ TotalLen(point_cloud_xyz) = TotalLen(point_cloud_rgb)
    /\ TotalLen(point_cloud_xyz) = Len(rays)
    /\ \A k \in 1..Len(point_cloud_xyz) :
          /\ Len(point_cloud_xyz[k]) = HW
          /\ Len(point_cloud_rgb[k]) = HW
          /\ \A r \in Rays :
                LET ray == rays[FlatIndex(k, r)]
                IN /\ point_cloud_rgb[k][r] = ray.colour
                   /\ \/ point_cloud_xyz[k][r] = Zero3
                      \/ \E s \in Samples :
                            point_cloud_xyz[k][r] = Position(ray.cam, ray.ray, s)

C3_Grows ==
    /\ TotalLen(point_cloud_xyz') >= TotalLen(point_cloud_xyz)
    /\ TotalLen(point_cloud_rgb') >= TotalLen(point_cloud_rgb)
    /\ SubSeq(point_cloud_xyz', 1, Len(point_cloud_xyz)) = point_cloud_xyz
    /\ SubSeq(point_cloud_rgb', 1, Len(point_cloud_rgb)) = point_cloud_rgb
    /\ processed' # processed =>
          /\ TotalLen(point_cloud_xyz') = TotalLen(point_cloud_xyz) + HW
          /\ TotalLen(point_cloud_rgb') = TotalLen(point_cloud_rgb) + HW

\* C3: between loop iterations verts and rgb have equal length, the length
\* never decreases, each processed frame adds exactly H*W to both, and row j of
\* verts and row j of rgb belong to the same ray.
C3_EqualLengthMonotone == [](C3_Aligned) /\ [][C3_Grows]_vars

\* two frames were appended, one of them with a background (zero) point
C3_Witness ==
    /\ appends = 2
    /\ \E j \in 1..Len(rays) : ~rays[j].reached
    /\ \E j \in 1..Len(rays) : rays[j].reached

\* C4: in every run that no render failure aborts, the point-cloud file is
\* written exactly once, after the loop has finished; never before or during
\* the loop.
C4_WrittenExactlyOnce ==
    /\ saves <= 1
    /\ (file.exists \/ saves > 0) => LoopFinished
    /\ (pc # "loop" /\ ~RenderFailed) => saves = 1

\* C5: a render failure at frame k aborts the run at once: the failed call is
\* not repeated, no later frame is rendered or appended, no point-cloud file
\* is written, and the images of the frames processed before k stay.
C5_FailFast ==
    RenderFailed =>
        /\ pc = "aborted"
        /\ Len(renders) = Len(processed) + 1
        /\ SubSeq(renders, 1, Len(processed)) = processed
        /\ \A a, b \in 1..Len(renders) : a < b => renders[a] < renders[b]
        /\ i = renders[Len(renders)]
        /\ appends = Len(processed)
        /\ ~file.exists /\ saves = 0
        /\ images = {processed[k] : k \in 1..Len(processed)}

\* the render of the second processed frame failed; the first frame's image
\* is on disk
C5_Witness ==
    /\ RenderFailed /\ Len(processed) = 1 /\ images = {0} /\ pc = "aborted"

\* C8: a ray whose cumulative weight never reaches 0.5 yields the point
\* (0,0,0), whatever its sample positions, and the point is appended with the
\* ray's predicted colour.
C8_DegenerateRayIsZero ==
    /\ Len(rays) = TotalLen(point_cloud_xyz)
    /\ \A k \in 1..Len(point_cloud_xyz) : \A r \in DOMAIN point_cloud_xyz[k] :
          (FlatIndex(k, r) <= Len(rays) /\ ~rays[FlatIndex(k, r)].reached) =>
              /\ point_cloud_xyz[k][r] = Zero3
              /\ point_cloud_rgb[k][r] = rays[FlatIndex(k, r)].colour

\* C8, on one ray alone with its sample positions drawn freely: weights that
\* never accumulate to 0.5 give the zero point
C8_ExtractedAlone ==
    (px.stage = "masked" /\ ~Reaches(px.w, depth_threshold)) => px.point = Zero3

\* a frame was appended in which one ray reached the threshold and another
\* did not
C8_Witness ==
    /\ appends >= 1
    /\ \E j \in 1..Len(rays) : rays[j].reached
    /\ \E j \in 1..Len(rays) : ~rays[j].reached /\ rays[j].cam = 0
    /\ \E r \in Rays : point_cloud_xyz[1][r] = Zero3

\* ================================================== claims on extraction
\* the first sample the mask selects, NumSamples + 1 when it selects none
FirstActive(mask) ==
    IF \E s \in DOMAIN mask : mask[s] = 1
    THEN CHOOSE s \in DOMAIN mask :
            mask[s] = 1 /\ \A u \in DOMAIN mask : mask[u] = 1 => s <= u
    ELSE Len(mask) + 1
Selected(mask) == {s \in DOMAIN mask : mask[s] # 0}

\* C9: for fixed non-negative weights, raising the threshold within [0, 1]
\* never lowers the sample index at which the mask first activates, and under
\* each threshold the mask selects at most one sample of the ray.
C9_ThresholdMonotone ==
    px.stage = "masked" =>
        /\ FirstActive(px.mask_lo) <= FirstActive(px.mask_hi)
        /\ Cardinality(Selected(px.mask_lo)) <= 1
        /\ Cardinality(Selected(px.mask_hi)) <= 1
        /\ \A s \in Selected(px.mask_lo) : px.mask_lo[s] = 1
        /\ \A s \in Selected(px.mask_hi) : px.mask_hi[s] = 1

\* the higher threshold moved the selected sample further along the ray, past
\* a sample that carries weight
C9_Witness ==
    /\ px.stage = "masked" /\ px.lo < px.hi
    /\ FirstActive(px.mask_lo) = 1
    /\ FirstActive(px.mask_hi) = 2
    /\ px.w[1] > 0 /\ px.w[2] > 0

\* ================================================== claims on persistence
\* row j of the point cloud the accumulated chunks make up
SavedRow(chunks, j) == chunks[((j - 1) \div HW) + 1][((j - 1) % HW) + 1]
ReadAttempted == io.stage \in {"load_failed", "shown", "converted", "aborted"}

\* C10: writing a point cloud and reading it back returns the same verts and
\* rgb, row for row and in order, values not renormalised, for every length
\* including the empty point cloud.
C10_RoundTrip ==
    ReadAttempted =>
        /\ io.stage # "load_failed"
        /\ Len(io.points) = HW * Len(io.xyz)
        /\ Len(io.colors) = HW * Len(io.rgb)
        /\ \A j \in 1..(HW * Len(io.xyz)) :
              /\ io.points[j] = SavedRow(io.xyz, j)
              /\ io.colors[j] = SavedRow(io.rgb, j)

\* the same round trip for the point clouds sample_points does write, those
\* of at least one frame
RoundTripOfWritten ==
    (ReadAttempted /\ io.xyz # <<>>) =>
        /\ io.stage # "load_failed"
        /\ Len(io.points) = HW * Len(io.xyz)
        /\ Len(io.colors) = HW * Len(io.rgb)
        /\ \A j \in 1..(HW * Len(io.xyz)) :
              /\ io.points[j] = SavedRow(io.xyz, j)
              /\ io.colors[j] = SavedRow(io.rgb, j)

\* ================================================== claims on the executor
\* C6: rendering a batch over d devices (d divides the batch size) and
\* gathering gives the RenderOutput a single device gives, in the same pixel
\* order, whatever the order in which the devices finish and whatever the
\* chunk size; the output exists only once every device partition has finished.
C6_GatherPreservesOrder ==
    /\ rd.stage = "returned" =>
          /\ Len(rd.out) = Len(rd.batch)
          /\ \A j \in 1..Len(rd.batch) : rd.out[j] = SceneModel(rd.batch[j])
    /\ rd.stage \in {"call", "dispatch", "running"} => rd.out = <<>>
    /\ rd.stage = "returned" => (rd.pending = {} /\ rd.completed = rd.sent)
    /\ rd.stage \in {"dispatch", "returned"} =>
          /\ rd.completed = rd.sent
          /\ \A c \in 1..Len(rd.ret_maps) : \A j \in 1..Len(rd.ret_maps[c]) :
                rd.ret_maps[c][j] = SceneModel(rd.batch[(c - 1) * rd.chunk + j])

\* two devices finished a dispatch in the order 2, 1, a chunk was padded, and
\* the frame's output was returned
C6_Witness ==
    /\ rd.stage = "returned" /\ rd.device_count = 2 /\ Len(rd.batch) = 4
    /\ rd.chunk = 3 /\ rd.order = <<2, 1>> /\ rd.padding = 1

====
